---- MODULE Spec2Model ----
(***************************************************************************)
(* email2rss: the fetch / store / render pipeline.                         *)
(*                                                                         *)
(* Processes                                                               *)
(*   "poller"  start.fetch_and_generate: while True: feed_converter.main() *)
(*             then time.sleep(refresh_seconds).                           *)
(*   "run1", "run2"  two launches of email_fetcher.main (the script        *)
(*             email_fetcher.py, run by hand or by cron).                  *)
(*   feed_generator.main (the script feed_generator.py), started after     *)
(*             "run1" has ended; feed_server answering a GET request.      *)
(*                                                                         *)
(* Specifications                                                          *)
(*   Spec      the deployment start.py makes: the poller is the only       *)
(*             writer of the store.                                        *)
(*   FairSpec  Spec plus the fairness the poller loop has once a cycle     *)
(*             has ended (the except clause returns, sleep returns, the    *)
(*             loop calls main again).                                     *)
(*   SpecRace  two launches of email_fetcher.main overlapping: two fetch   *)
(*             runs writing the same store.                                *)
(*   SpecCron  two launches of email_fetcher.main one after the other,     *)
(*             the mailbox renumbered in between.                          *)
(*   SpecGen   email_fetcher.py, then feed_generator.py: the feed files    *)
(*             and the subscription index under {data_dir}/feed.           *)
(*   SpecServer  SpecGen's pipeline over a smaller mailbox, then one GET   *)
(*             request to feed_server.                                     *)
(*   SpecRewrite  feed_generator.py rewriting the feed files (open, then   *)
(*             write) while feed_server answers a GET for one of them.     *)
(*   SpecReader  email_fetcher.py, then one article link of a reader       *)
(*             listing followed.                                           *)
(*   SpecBody  the body of a multipart message, as generate_rss and as     *)
(*             serve_article extract it.                                   *)
(*   SpecCleanse  util.cleanse_content on short strings.                   *)
(*                                                                         *)
(* Every SQL statement is one step: save_email is a SELECT followed by an  *)
(* INSERT + COMMIT, and nothing in database.py ties the two together (no   *)
(* UNIQUE on email_id, no BEGIN IMMEDIATE), so other processes may step    *)
(* in between.                                                             *)
(***************************************************************************)
EXTENDS Integers, Sequences, FiniteSets, TLC

\* Number of messages in the mailbox.
MaxMail == 3

\* config["max_item_per_feed"]: read from the environment (default 100);
\* the model runs with a small cap so that a sender can exceed it.
max_item_per_feed == 2

\* email_fetcher.main / feed_converter.main: "since = 1" and "since = 30".
WindowSteady == 1
WindowColdStart == 30

Scripts == {"run1", "run2"}

Procs == {"poller"} \cup Scripts

\* A header that is not in the message: msg["x"] is None.
NoHeader == "<none>"

Me == "me@x.org"

\* The Date header parses to one of these instants.
Dates == {1, 2}

\* The time of the fetch run: later than every message date.
FetchTime == Cardinality(Dates) + 1

\* A raw message: its From, To, Subject and Date headers; ts is the instant
\* the Date header denotes when it parses; charset is the charset its
\* Content-Type declares for the body (the message is not multipart).
Msg(f, t, d, v) ==
    [from |-> f, to |-> t, subject |-> "Hello", date |-> d, ts |-> v,
     charset |-> "utf-8"]

\* The messages a mailbox may hold: well-formed ones (one From header has a
\* display name and capitals), and ones with a single defective header (no
\* From, no Date, a Date that does not parse).
MsgKinds ==
    { Msg("a@b.com", Me, "ok", 1),
      Msg("Alice <A@B.com>", Me, "ok", 2),
      Msg("c@d.com", Me, "ok", 1),
      Msg(NoHeader, Me, "ok", 1),
      Msg("a@b.com", Me, "absent", 1),
      Msg("c@d.com", Me, "garbled", 1) }

VARIABLES
    mailbox,    \* the IMAP mailbox: message number -> raw message
    dayStart,   \* messages numbered above dayStart arrived within the last day
    store,      \* table "emails": the sequence of rows, in insertion order
    feeds,      \* directory rss_feed: sanitized file name -> feed document
    pc,         \* per process: where it is in its code
    since,      \* per process: main's local "since"
    msgs,       \* per process: fetch_emails' local "messages"
    idx,        \* per process: position of the loop in "messages" (1-based)
    existing,   \* per process: save_email's "existing_email is not None"
    err,        \* per process: what main's try block raised, "none" so far
    todo,       \* the senders the poller's render loop has not yet visited
    before_id,  \* per process: email_fetcher.main's local before_id
    after_id,   \* per process: email_fetcher.main's local after_id
    gpc,        \* feed_generator.main: where it is in its code
    gtodo,      \* feed_generator.main: the senders its loop has not visited
    rss_files,  \* feed_generator.main's local rss_files: the paths saved
    rendered,   \* the senders of the "Saved RSS feed" log lines, in order
    feedDir,    \* directory {data_dir}/feed: file name -> feed document
    opml,       \* {data_dir}/feed/subscriptions.opml: its outlines
    unparsed,   \* positions of rss_files whose ET.parse raised
    open_file,  \* save_feed: the file open for writing and the content
                \* to write; << >> when none is open
    request,    \* feed_server: the path of the GET request last served
    reply,      \* feed_server: the response to it
    part_list,  \* a multipart message: the parts msg.walk() yields
    description,\* feed_generator.generate_rss: the entry's description
    article,    \* feed_server.serve_article: the article's content
    raw_text,   \* the argument of util.cleanse_content
    clean_text  \* its result

\* The state of the fetch runs and of the poller's render loop.
fetchVars == << mailbox, dayStart, store, feeds, pc, since, msgs, idx,
                existing, err, todo, before_id, after_id >>

\* The state of feed_generator.main.
genVars == << gpc, gtodo, rss_files, rendered, feedDir, opml, unparsed,
             open_file >>

\* The state of feed_server.
srvVars == << request, reply >>

\* The inputs and results of the content functions.
txtVars == << part_list, description, article, raw_text, clean_text >>

\* What a fetch run and the poller never touch.
outside == << genVars, srvVars, txtVars >>

vars == << fetchVars, outside >>

----------------------------------------------------------------------------
(* util.py *)

\* What re.search(r"[\w\.-]+@[\w\.-]+", s) matches in s.
AddressIn(h) ==
    CASE h = "a@b.com"         -> "a@b.com"
      [] h = "Alice <A@B.com>" -> "A@B.com"
      [] h = "c@d.com"         -> "c@d.com"
      [] h = "j.doe@x.org"     -> "j.doe@x.org"
      [] h = "j@doe.x.org"     -> "j@doe.x.org"
      [] h = Me                -> Me
      [] OTHER                 -> NoHeader

\* str.lower on the addresses of the model.
Lower(a) == IF a = "A@B.com" THEN "a@b.com" ELSE a

\* re.search on None raises TypeError.
extract_email_address_raises(h) == h = NoHeader

extract_email_address(h, default) ==
    IF AddressIn(h) # NoHeader THEN Lower(AddressIn(h)) ELSE default

\* email.utils.parsedate_to_datetime raises on None and on a string that
\* is no date.
parsedate_to_datetime_raises(m) == m.date # "ok"

parsedate_to_datetime(m) == m.ts

----------------------------------------------------------------------------
(* database.py *)

Range(s) == { s[i] : i \in DOMAIN s }

Min(a, b) == IF a < b THEN a ELSE b

\* The elements of seq at the positions in S, in order.
Pick(seq, S) ==
    LET F[i \in 0..Len(seq)] ==
            IF i = 0 THEN << >>
            ELSE IF i \in S THEN Append(F[i - 1], seq[i]) ELSE F[i - 1]
    IN  F[Len(seq)]

\* session.query(Email).count()
get_entry_count(st) == Len(st)

\* A SELECT that never finds the row.
existing_email_never(st, email_id) == FALSE

\* session.query(Email).filter_by(email_id=email_id).first() is not None
existing_email(st, email_id) == \E i \in DOMAIN st : st[i].email_id = email_id

\* session.add without session.commit: the row is gone when the session
\* closes.
add_without_commit(st, row) == st

\* session.add(email); session.commit(): one row appended, id assigned.
add_commit(st, row) == Append(st, [row EXCEPT !.id = Len(st) + 1])

\* All orders of the rows of S (row ids) that ORDER BY timestamp ASC allows:
\* rows with equal timestamps come in any order.
OrderByTimestampAsc(st, S) ==
    { q \in [1..Cardinality(S) -> S] :
        /\ \A i, j \in DOMAIN q : i # j => q[i] # q[j]
        /\ \A i, j \in DOMAIN q : i < j => st[q[i]].timestamp <= st[q[j]].timestamp }

Limit(q, n) == SubSeq(q, 1, Min(n, Len(q)))

\* get_email(sender): the results the query may give, each a sequence of
\* row ids. filter_by(sender).order_by(timestamp.asc()).limit(max_item_per_feed)
get_email(st, sender) ==
    { Limit(q, max_item_per_feed) :
        q \in OrderByTimestampAsc(st, { i \in DOMAIN st : st[i].sender = sender }) }

\* session.query(Email.sender).distinct().all()
get_senders(st) == { st[i].sender : i \in DOMAIN st }

\* A query that takes the row inserted last (ORDER BY id DESC).
get_last_email_id_by_rowid(st) ==
    IF Len(st) = 0 THEN {0} ELSE { st[Len(st)].email_id }

\* get_last_email_id: ORDER BY timestamp DESC, first(); 0 on an empty table.
\* The set of values the query may give (ties in timestamp).
get_last_email_id(st) ==
    IF Len(st) = 0 THEN {0}
    ELSE { st[i].email_id : i \in { k \in DOMAIN st :
                \A j \in DOMAIN st : st[j].timestamp <= st[k].timestamp } }

----------------------------------------------------------------------------
(* email_fetcher.py / feed_converter.py: the fetch run *)

\* main without the cold-start branch.
DetermineWindowValue_steady(st) == WindowSteady

\* A main that repeats the backfill while the store holds a single row.
DetermineWindowValue_sparse(st) ==
    IF get_entry_count(st) <= 1 THEN WindowColdStart ELSE WindowSteady

\* main: since = 1; if db.get_entry_count() == 0: since = 30
DetermineWindowValue(st) ==
    IF get_entry_count(st) = 0 THEN WindowColdStart ELSE WindowSteady

\* mail.search(None, "(SINCE today - since days)"): message numbers in
\* ascending order. All messages of the model are younger than 30 days.
SearchSince(n) ==
    LET lo == IF n >= WindowColdStart THEN 0 ELSE dayStart
    IN  [k \in 1..(MaxMail - lo) |-> lo + k]

\* The statements of the loop body between mail.fetch and db.save_email
\* raise on this message.
parse_raises(m) ==
    \/ extract_email_address_raises(m.from)
    \/ extract_email_address_raises(m.to)
    \/ parsedate_to_datetime_raises(m)

\* The keyword arguments of db.save_email for message number num.
RowOf(num) ==
    LET m == mailbox[num]
    IN  [ id        |-> 0,
          sender    |-> extract_email_address(m.from, "unknown@email.com"),
          receiver  |-> extract_email_address(m.to, "you@email.com"),
          email_id  |-> num,
          subject   |-> m.subject,
          content   |-> m,
          timestamp |-> parsedate_to_datetime(m) ]

Cur(p) == msgs[p][idx[p]]

\* An except clause that names the mailbox errors only.
main_catches_mailbox_errors(e) == e \in {"connect", "search", "fetch"}

\* main: "except Exception as e: log". TRUE: main catches the error e and
\* returns.
main_catches(e) == TRUE

Returned(p) == IF p = "poller" THEN "sleep" ELSE "exit"

\* main, up to the try: the window is decided from the store's count.
DetermineWindow(p) ==
    /\ pc[p] = "idle"
    /\ since' = [since EXCEPT ![p] = DetermineWindowValue(store)]
    /\ pc' = [pc EXCEPT ![p] = "connect"]
    /\ msgs' = [msgs EXCEPT ![p] = << >>]
    /\ idx' = [idx EXCEPT ![p] = 0]
    /\ existing' = [existing EXCEPT ![p] = FALSE]
    /\ UNCHANGED << outside, after_id,
                    mailbox, dayStart, store, feeds, err, todo, before_id >>

\* main enters its try block. connect_to_gmail: IMAP4_SSL, login, select;
\* any failure is re-raised. email_fetcher.main then reads before_id.
connect_to_gmail(p) ==
    /\ pc[p] = "connect"
    /\ \E ok \in BOOLEAN :
         IF ok
         THEN /\ pc' = [pc EXCEPT ![p] = "search"]
              /\ IF p \in Scripts
                 THEN \E b \in get_last_email_id(store) :
                          before_id' = [before_id EXCEPT ![p] = b]
                 ELSE UNCHANGED before_id
              /\ err' = [err EXCEPT ![p] = "none"]
         ELSE /\ pc' = [pc EXCEPT ![p] = "except"]
              /\ err' = [err EXCEPT ![p] = "connect"]
              /\ UNCHANGED before_id
    /\ UNCHANGED << outside, after_id,
                    mailbox, dayStart, store, feeds, since, msgs, idx,
                    existing, todo >>

\* fetch_emails: mail.search and messages = msg[0].split()
Search(p) ==
    /\ pc[p] = "search"
    /\ \E ok \in BOOLEAN :
         IF ok
         THEN /\ msgs' = [msgs EXCEPT ![p] = SearchSince(since[p])]
              /\ idx' = [idx EXCEPT ![p] = 1]
              /\ pc' = [pc EXCEPT ![p] = "fetch"]
              /\ UNCHANGED err
         ELSE /\ pc' = [pc EXCEPT ![p] = "except"]
              /\ err' = [err EXCEPT ![p] = "search"]
              /\ UNCHANGED << msgs, idx >>
    /\ UNCHANGED << outside, after_id,
                    mailbox, dayStart, store, feeds, since, existing, todo,
                    before_id >>

\* A try / except inside the loop that logs and goes on to the next message.
fetch_emails_except_continue(i) == [pc |-> "fetch", idx |-> i + 1]

\* fetch_emails: the try encloses the whole loop, and its except clause logs
\* and re-raises: an error at message i leaves the loop for main's except.
fetch_emails_except(i) == [pc |-> "except", idx |-> i]

\* fetch_emails, loop body up to db.save_email: mail.fetch, the parse of
\* From, To and Date.
FetchAndParse(p) ==
    /\ pc[p] = "fetch"
    /\ idx[p] <= Len(msgs[p])
    /\ \E ok \in BOOLEAN :
         IF ~ok
         THEN /\ pc' = [pc EXCEPT ![p] = fetch_emails_except(idx[p]).pc]
              /\ idx' = [idx EXCEPT ![p] = fetch_emails_except(idx[p]).idx]
              /\ err' = [err EXCEPT ![p] = "fetch"]
         ELSE IF parse_raises(mailbox[Cur(p)])
         THEN /\ pc' = [pc EXCEPT ![p] = fetch_emails_except(idx[p]).pc]
              /\ idx' = [idx EXCEPT ![p] = fetch_emails_except(idx[p]).idx]
              /\ err' = [err EXCEPT ![p] = "parse"]
         ELSE /\ pc' = [pc EXCEPT ![p] = "select"]
              /\ UNCHANGED << idx, err >>
    /\ UNCHANGED << outside, after_id,
                    mailbox, dayStart, store, feeds, since, msgs,
                    existing, todo, before_id >>

\* save_email, first statement: the SELECT for a row with this email_id.
save_email_select(p) ==
    /\ pc[p] = "select"
    /\ existing' = [existing EXCEPT ![p] = existing_email(store, Cur(p))]
    /\ pc' = [pc EXCEPT ![p] = "insert"]
    /\ UNCHANGED << outside, after_id,
                    mailbox, dayStart, store, feeds, since, msgs, idx, err,
                    todo, before_id >>

\* save_email without the else branch: it adds the row whatever the SELECT
\* found.
save_email_write_always(st, found, row) == add_commit(st, row)

\* save_email as INSERT OR REPLACE: the row found is dropped and the new one
\* added.
save_email_write_replace(st, found, row) ==
    LET keep == { i \in DOMAIN st : st[i].email_id # row.email_id }
        F[i \in 0..Len(st)] ==
            IF i = 0 THEN << >>
            ELSE IF i \in keep THEN Append(F[i - 1], st[i]) ELSE F[i - 1]
    IN  add_commit(F[Len(st)], row)

\* A save_email that looks for a row of the same sender with the email_id.
save_email_write_per_sender(st, found, row) ==
    IF \E i \in DOMAIN st :
           st[i].email_id = row.email_id /\ st[i].sender = row.sender
    THEN st
    ELSE add_commit(st, row)

\* What save_email does to the table once the SELECT has answered.
save_email_write(st, found, row) == IF found THEN st ELSE add_commit(st, row)

\* save_email, the branch: INSERT + COMMIT, or the "already exists" print.
\* The loop then moves to the next message.
save_email_insert(p) ==
    /\ pc[p] = "insert"
    /\ store' = save_email_write(store, existing[p], RowOf(Cur(p)))
    /\ idx' = [idx EXCEPT ![p] = idx[p] + 1]
    /\ pc' = [pc EXCEPT ![p] = "fetch"]
    /\ UNCHANGED << outside, after_id,
                    mailbox, dayStart, feeds, since, msgs, existing, err,
                    todo, before_id >>

\* feed_converter.main: fetch_emails returned; "for sender in
\* db.get_senders()" starts.
FetchDoneConverter ==
    /\ pc["poller"] = "fetch"
    /\ idx["poller"] > Len(msgs["poller"])
    /\ todo' = get_senders(store)
    /\ pc' = [pc EXCEPT !["poller"] = "render"]
    /\ UNCHANGED << outside, after_id,
                    mailbox, dayStart, store, feeds, since, msgs, idx,
                    existing, err, before_id >>

\* email_fetcher.main: fetch_emails returned; after_id is read and compared
\* (both branches only log), main returns.
FetchDoneFetcher(p) ==
    /\ p \in Scripts
    /\ pc[p] = "fetch"
    /\ idx[p] > Len(msgs[p])
    /\ \E a \in get_last_email_id(store) :
         after_id' = [after_id EXCEPT ![p] = a]
    /\ pc' = [pc EXCEPT ![p] = "exit"]
    /\ UNCHANGED << outside, mailbox, dayStart, store, feeds, since, msgs, idx,
                    existing, err, todo, before_id >>

\* main's "except Exception": the run ends here.
MainExcept(p) ==
    /\ pc[p] = "except"
    /\ pc' = [pc EXCEPT ![p] = IF main_catches(err[p]) THEN Returned(p)
                               ELSE "crashed"]
    /\ UNCHANGED << outside, after_id,
                    mailbox, dayStart, store, feeds, since, msgs, idx,
                    existing, err, todo, before_id >>

----------------------------------------------------------------------------
(* feed_converter.py: the render loop of the poller *)

\* save_feed: email_address.replace("@", "_").replace(".", "_") + ".xml"
FeedFileName(sender) ==
    CASE sender = "a@b.com" -> "a_b_com.xml"
      [] sender = "c@d.com" -> "c_d_com.xml"
      [] OTHER              -> "unknown_email.xml"

Reverse(q) == [i \in 1..Len(q) |-> q[Len(q) + 1 - i]]

\* generate_rss: one entry per message of the query; fg.add_entry() puts
\* each new entry in front of the earlier ones. An entry is written here as
\* the email_id of its message.
generate_rss(st, q) == Reverse([i \in 1..Len(q) |-> st[q[i]].email_id])

\* One pass of "for sender in db.get_senders()": get_email, generate_rss,
\* save_feed. generate_rss raises on a body it cannot decode; the error
\* leaves the loop and reaches main's except.
RenderSender ==
    /\ pc["poller"] = "render"
    /\ todo # {}
    /\ \E s \in todo, ok \in BOOLEAN : \E q \in get_email(store, s) :
         IF ok
         THEN /\ feeds' = (FeedFileName(s) :> generate_rss(store, q)) @@ feeds
              /\ todo' = todo \ {s}
              /\ UNCHANGED << pc, err >>
         ELSE /\ pc' = [pc EXCEPT !["poller"] = "except"]
              /\ err' = [err EXCEPT !["poller"] = "render"]
              /\ UNCHANGED << feeds, todo >>
    /\ UNCHANGED << outside, after_id,
                    mailbox, dayStart, store, since, msgs, idx, existing,
                    before_id >>

\* The loop over the senders is over: main returns.
RenderDone ==
    /\ pc["poller"] = "render"
    /\ todo = {}
    /\ pc' = [pc EXCEPT !["poller"] = "sleep"]
    /\ UNCHANGED << outside, after_id,
                    mailbox, dayStart, store, feeds, since, msgs, idx,
                    existing, err, todo, before_id >>

----------------------------------------------------------------------------
(* start.py *)

\* fetch_and_generate: time.sleep(refresh_seconds) returns, the loop goes
\* round.
Sleep ==
    /\ pc["poller"] = "sleep"
    /\ pc' = [pc EXCEPT !["poller"] = "idle"]
    /\ UNCHANGED << outside, after_id,
                    mailbox, dayStart, store, feeds, since, msgs, idx,
                    existing, err, todo, before_id >>

----------------------------------------------------------------------------
(* feed_generator.py: generate_rss, save_feed, create_opml_from_files, main *)

\* A message with no Subject header.
NoSubject(m) == [m EXCEPT !.subject = NoHeader]

\* The messages of the mailbox the cron pipeline (email_fetcher.py, then
\* feed_generator.py) reads: well-formed ones, one without Subject, and two
\* senders whose addresses differ only in where the "@" stands.
GenKinds ==
    { Msg("a@b.com", Me, "ok", 1),
      Msg("Alice <A@B.com>", Me, "ok", 2),
      NoSubject(Msg("c@d.com", Me, "ok", 1)),
      Msg("j.doe@x.org", Me, "ok", 1),
      Msg("j@doe.x.org", Me, "ok", 2) }

\* The text of the Date header: msg["date"].
date_header(m) ==
    CASE m.date = "absent"  -> NoHeader
      [] m.date = "garbled" -> "yesterday"
      [] m.ts = 1           -> "Mon, 1 Jan 2024 10:00:00 +0000"
      [] OTHER              -> "Tue, 2 Jan 2024 10:00:00 +0000"

\* hashlib.md5(x.encode()).hexdigest(), taken to be free of collisions.
md5(x) == "md5:" \o x

\* email.utils.parseaddr(msg["from"])[0]: the display name, "" without one.
parseaddr_name(h) == IF h = "Alice <A@B.com>" THEN "Alice" ELSE ""

\* A message whose body is in a charset Python has no codec for.
OddCharset(m) == [m EXCEPT !.charset = "x-unknown"]

\* The body of a message that is not multipart:
\* msg.get_payload(decode=True).decode(charset, errors="ignore") raises
\* LookupError on an unknown charset, and no try stands around it.
payload_decode_raises(m) == m.charset # "utf-8"

\* generate_rss raises on this message: decode_header(None),
\* parsedate_to_datetime of no date, None + str, the body's charset.
entry_raises(m) ==
    \/ m.subject = NoHeader
    \/ parsedate_to_datetime_raises(m)
    \/ m.from = NoHeader
    \/ payload_decode_raises(m)

\* generate_rss: "unique_string = msg[subject] + msg[date] + msg[from]" and
\* feed_entry.id(md5 of it).
feed_entry_id_date_first(m) == md5(date_header(m) \o m.subject \o m.from)

feed_entry_id(m) == md5(m.subject \o date_header(m) \o m.from)

\* generate_rss raises for this query result.
generate_rss_raises(st, q) == \E i \in DOMAIN q : entry_raises(st[q[i]].content)

\* channel_data["name"]: the sender, replaced by the display name of every
\* message that has one, in the order of the query: the last one stays.
channel_title(st, q, sender) ==
    LET named == { i \in DOMAIN q : parseaddr_name(st[q[i]].content.from) # "" }
    IN  IF named = {} THEN sender
        ELSE parseaddr_name(
                 st[q[CHOOSE i \in named : \A j \in named : j <= i]].content.from)

\* generate_rss: the feed document of a sender. channel.add_entry() puts
\* each new entry in front of the earlier ones.
feed_document(st, q, sender) ==
    [ title   |-> channel_title(st, q, sender),
      entries |-> Reverse([i \in 1..Len(q) |->
                     [row |-> q[i], guid |-> feed_entry_id(st[q[i]].content)]]) ]

\* An address cut at every "@" and ".".
Pieces(a) ==
    CASE a = "a@b.com"     -> << "a", "@", "b", ".", "com" >>
      [] a = "c@d.com"     -> << "c", "@", "d", ".", "com" >>
      [] a = "j.doe@x.org" -> << "j", ".", "doe", "@", "x", ".", "org" >>
      [] a = "j@doe.x.org" -> << "j", "@", "doe", ".", "x", ".", "org" >>
      [] OTHER             -> << "unknown", "@", "email", ".", "com" >>

\* A file name that keeps the address as it is.
xml_filename_plain(sender) == Append(Pieces(sender), ".xml")

\* save_feed: email_address.replace("@", "_").replace(".", "_"), then
\* ".xml".
xml_filename(sender) ==
    Append([i \in DOMAIN Pieces(sender) |->
               IF Pieces(sender)[i] \in {"@", "."} THEN "_"
               ELSE Pieces(sender)[i]],
           ".xml")

\* create_opml_from_files with the try around the whole loop: the first
\* file that does not parse ends the loop.
outlines_until_error(files, dir, bad) ==
    LET stop == IF bad = {} THEN Len(files) + 1
                ELSE CHOOSE i \in bad : \A j \in bad : i <= j
    IN  [i \in 1..(stop - 1) |->
            [xmlUrl |-> files[i], title |-> dir[files[i]].title]]

\* create_opml_from_files: one outline for each file of rss_files that
\* ET.parse reads; bad is the set of positions where it raises. The title
\* is the feed's own, "Unknown Feed" when it has none.
outlines(files, dir, bad) ==
    LET F[i \in 0..Len(files)] ==
            IF i = 0 THEN << >>
            ELSE IF i \in bad THEN F[i - 1]
            ELSE Append(F[i - 1],
                        [xmlUrl |-> files[i],
                         title  |-> IF dir[files[i]].title = ""
                                    THEN "Unknown Feed"
                                    ELSE dir[files[i]].title])
    IN  F[Len(files)]

\* feed_generator.py is started once the fetch script has ended; main sets
\* rss_files = [] and reads db.get_senders().
GenStart ==
    /\ gpc = "idle"
    /\ pc["run1"] = "exit"
    /\ gpc' = "loop"
    /\ gtodo' = get_senders(store)
    /\ rss_files' = << >>
    /\ rendered' = << >>
    /\ UNCHANGED << fetchVars, srvVars, txtVars, feedDir, opml, unparsed,
                    open_file >>

\* main, one pass of the loop: get_email, generate_rss, save_feed and
\* rss_files.append inside the try; the except logs "Skipping" and goes on
\* to the next sender. save_feed raises when the file cannot be written.
GenSender ==
    /\ gpc = "loop"
    /\ gtodo # {}
    /\ \E s \in gtodo, saved \in BOOLEAN : \E q \in get_email(store, s) :
         /\ gtodo' = gtodo \ {s}
         /\ IF ~generate_rss_raises(store, q) /\ saved
            THEN /\ feedDir' = (xml_filename(s) :> feed_document(store, q, s))
                                  @@ feedDir
                 /\ rss_files' = Append(rss_files, xml_filename(s))
                 /\ rendered' = Append(rendered, s)
            ELSE UNCHANGED << feedDir, rss_files, rendered >>
    /\ UNCHANGED << fetchVars, srvVars, txtVars, gpc, opml, unparsed,
                    open_file >>

\* main, after the loop: create_opml_from_files(rss_files) and
\* tree.write; main returns.
GenOpml ==
    /\ gpc = "loop"
    /\ gtodo = {}
    /\ \E bad \in SUBSET (DOMAIN rss_files) :
         /\ opml' = [written |-> TRUE, outlines |-> outlines(rss_files, feedDir, bad)]
         /\ unparsed' = bad
    /\ gpc' = "exit"
    /\ UNCHANGED << fetchVars, srvVars, txtVars, gtodo, rss_files, rendered,
                    feedDir, open_file >>

----------------------------------------------------------------------------
(* database.py: the queries of the reader *)

\* The addresses a row's sender may be.
Senders == {"a@b.com", "c@d.com", "j.doe@x.org", "j@doe.x.org",
            "unknown@email.com"}

\* msg["subject"] + msg["date"] + msg["from"] raises: a header is None.
unique_string_raises(m) ==
    \/ m.subject = NoHeader
    \/ date_header(m) = NoHeader
    \/ m.from = NoHeader

\* get_email_by_guid: "unique_string = ...; calculated_guid = md5(...)".
calculated_guid(m) == md5(m.subject \o date_header(m) \o m.from)

\* get_emails_by_sender_with_metadata / get_all_emails_with_metadata:
\* "unique_string = ...; guid = md5(...)".
metadata_guid(m) == md5(m.subject \o date_header(m) \o m.from)

\* A lookup that does not filter by sender.
get_email_by_guid_any_sender(st, sender, guid) ==
    LET hits == { i \in DOMAIN st :
                    /\ ~unique_string_raises(st[i].content)
                    /\ calculated_guid(st[i].content) = guid }
    IN  IF hits = {} THEN {0} ELSE hits

\* get_email_by_guid(sender, guid): the rows it may return, 0 for None.
\* filter_by(sender).all() has no ORDER BY: the scan may meet the sender's
\* rows in any order, and the first row whose GUID matches is returned; a
\* row whose GUID cannot be computed is passed over.
get_email_by_guid(st, sender, guid) ==
    LET hits == { i \in DOMAIN st :
                    /\ st[i].sender = sender
                    /\ ~unique_string_raises(st[i].content)
                    /\ calculated_guid(st[i].content) = guid }
    IN  IF hits = {} THEN {0} ELSE hits

\* The metadata list of the rows of q: rows whose subject or GUID raises
\* are left out.
metadata(st, q) ==
    LET F[i \in 0..Len(q)] ==
            IF i = 0 THEN << >>
            ELSE IF \/ st[q[i]].content.subject = NoHeader
                    \/ unique_string_raises(st[q[i]].content)
                 THEN F[i - 1]
            ELSE Append(F[i - 1],
                        [row    |-> q[i],
                         sender |-> st[q[i]].sender,
                         guid   |-> metadata_guid(st[q[i]].content)])
    IN  F[Len(q)]

\* get_emails_by_sender_with_metadata(sender):
\* filter_by(sender).order_by(timestamp.desc()).limit(max_item_per_feed)
get_emails_by_sender_with_metadata(st, sender) ==
    { metadata(st, Limit(Reverse(q), max_item_per_feed)) :
        q \in OrderByTimestampAsc(st, { i \in DOMAIN st : st[i].sender = sender }) }

\* get_all_emails_with_metadata():
\* order_by(timestamp.desc()).limit(max_item_per_feed * 10)
get_all_emails_with_metadata(st) ==
    { metadata(st, Limit(Reverse(q), max_item_per_feed * 10)) :
        q \in OrderByTimestampAsc(st, DOMAIN st) }

----------------------------------------------------------------------------
(* feed_server.py *)

\* A request path is written as the sequence of its pieces: it is cut at
\* every "/", "?", "_", "." and "@", and an extension (".db", ".xml", ...)
\* is one piece.

SetMin(S) == CHOOSE x \in S : \A y \in S : x <= y

SetMax(S) == CHOOSE x \in S : \A y \in S : y <= x

\* str.endswith
EndsWith(path, piece) == Len(path) > 0 /\ path[Len(path)] = piece

\* str.split(sep)
Split(path, sep) ==
    LET F[i \in 0..Len(path)] ==
            IF i = 0 THEN << << >> >>
            ELSE IF path[i] = sep THEN Append(F[i - 1], << >>)
            ELSE [F[i - 1] EXCEPT ![Len(F[i - 1])] = Append(@, path[i])]
    IN  F[Len(path)]

\* str.strip(ch)
Strip(path, ch) ==
    LET keep == { i \in DOMAIN path : path[i] # ch }
    IN  IF keep = {} THEN << >> ELSE SubSeq(path, SetMin(keep), SetMax(keep))

\* sep.join(parts)
Join(parts, sep) ==
    LET F[i \in 0..Len(parts)] ==
            IF i = 0 THEN << >>
            ELSE IF i = 1 THEN parts[1]
            ELSE F[i - 1] \o << sep >> \o parts[i]
    IN  F[Len(parts)]

\* The address whose pieces these are; a string no row has when there is
\* none.
AddressOf(pieces) ==
    IF \E a \in Senders : Pieces(a) = pieces
    THEN CHOOSE a \in Senders : Pieces(a) = pieces
    ELSE "no such sender"

\* A resolution that keeps the "_" of the domain.
sender_email_keep_underscores(feed_name) ==
    LET parts == Split(feed_name, "_")
    IN  IF Len(parts) >= 2
        THEN AddressOf(parts[1] \o << "@" >> \o Join(Tail(parts), "_"))
        ELSE AddressOf(feed_name)

\* serve_article / serve_feed_article_list: the sanitized feed name turned
\* back into an address. parts = feed_name.split("_"); with two parts or
\* more parts[0] + "@" + ".".join(parts[1:]), else the name itself (it has
\* no "_" to replace).
sender_email(feed_name) ==
    LET parts == Split(feed_name, "_")
    IN  IF Len(parts) >= 2
        THEN AddressOf(parts[1] \o << "@" >> \o Join(Tail(parts), "."))
        ELSE AddressOf(feed_name)

\* sanitize_feed_name: email_address.replace("@", "_").replace(".", "_")
sanitize_feed_name(a) ==
    [i \in DOMAIN Pieces(a) |->
        IF Pieces(a)[i] \in {"@", "."} THEN "_" ELSE Pieces(a)[i]]

\* The guid segment of a path as the string get_email_by_guid compares: a
\* segment of several pieces is no hexdigest.
GuidText(segment) ==
    IF Len(segment) = 1 THEN segment[1] ELSE "not a digest"

Reply(status, by, what, body) ==
    [status |-> status, by |-> by, what |-> what, body |-> body]

\* What serve_article answers once get_email_by_guid gave row r: 404 for
\* None; 500 from the except clause when the body of the message does not
\* decode; else the article.
serve_article_status(r) ==
    IF r = 0 THEN 404
    ELSE IF payload_decode_raises(store[r].content) THEN 500
    ELSE 200

\* serve_article(feed_name, guid). The body is written as the two
\* arguments passed to get_email_by_guid and the row it gave.
serve_article(feed_name, guid) ==
    { Reply(serve_article_status(r), "serve_article",
            IF serve_article_status(r) = 200 THEN "article" ELSE "error",
            << [sender |-> sender_email(feed_name),
                guid   |-> GuidText(guid),
                row    |-> r] >>) :
        r \in get_email_by_guid(store, sender_email(feed_name), GuidText(guid)) }

\* serve_feed_article_list(feed_name)
serve_feed_article_list(feed_name) ==
    { IF articles = << >>
      THEN Reply(404, "serve_feed_article_list", "error", << >>)
      ELSE Reply(200, "serve_feed_article_list", "listing", articles) :
        articles \in get_emails_by_sender_with_metadata(store, sender_email(feed_name)) }

\* serve_article_list()
serve_article_list ==
    { Reply(200, "serve_article_list", "listing", articles) :
        articles \in get_all_emails_with_metadata(store) }

\* The files of the directory static/ next to feed_server.py.
StaticFiles == { << "reader", ".css" >>, << "reader", ".js" >> }

\* serve_static_file(filename): 403 when static/filename resolves to a
\* place outside static/, 404 when there is no such file.
serve_static_file(filename) ==
    IF filename = << ".." >>
    THEN { Reply(403, "serve_static_file", "error", << >>) }
    ELSE IF filename \in StaticFiles
    THEN { Reply(200, "serve_static_file", "static", << >>) }
    ELSE { Reply(404, "serve_static_file", "error", << >>) }

\* The files below {data_dir}: the store, and the directory feed with the
\* feed documents and the subscription index. A file is named by the
\* sequence of its path's segments.
DataDirFile(segments) ==
    IF segments = << << "emails", ".db" >> >> THEN "store"
    ELSE IF Len(segments) = 1 /\ segments[1] = << "feed" >> THEN "directory"
    ELSE IF Len(segments) = 2 /\ segments[1] = << "feed" >>
            /\ segments[2] \in DOMAIN feedDir THEN "feed"
    ELSE IF segments = << << "feed" >>, << "subscriptions", ".opml" >> >>
            /\ opml.written THEN "opml"
    ELSE "missing"

\* http.server.SimpleHTTPRequestHandler.do_GET with directory =
\* {data_dir}/feed: translate_path drops the query, empty segments, "." and
\* "..", and joins what is left to the directory.
SimpleHTTPRequestHandler_do_GET(path) ==
    LET words == Split(Strip(path, "/"), "/")
        kept  == Pick(words, { i \in DOMAIN words :
                                 words[i] \notin { << >>, << "." >>, << ".." >> } })
        file  == DataDirFile(<< << "feed" >> >> \o kept)
    IN  IF file = "missing"
        THEN { Reply(404, "SimpleHTTPRequestHandler", "error", << >>) }
        ELSE { Reply(200, "SimpleHTTPRequestHandler", file,
                     IF file = "feed" THEN << feedDir[kept[1]] >>
                     ELSE IF file = "opml" THEN << opml >>
                     ELSE << >>) }

\* do_GET after its first statement: the routes.
do_GET_routes(path) ==
    LET path_parts == Split(Strip(path, "/"), "/")
    IN  IF Len(path_parts) = 1 /\ path_parts[1] = << "article" >>
        THEN serve_article_list
        ELSE IF Len(path_parts) = 2 /\ path_parts[1] = << "article" >>
        THEN serve_feed_article_list(path_parts[2])
        ELSE IF Len(path_parts) >= 3 /\ path_parts[1] = << "article" >>
        THEN serve_article(path_parts[2], path_parts[3])
        ELSE IF Len(path_parts) >= 2 /\ path_parts[1] = << "static" >>
        THEN serve_static_file(path_parts[2])
        ELSE SimpleHTTPRequestHandler_do_GET(path)

\* self.path.split("?")[0]
BeforeQuery(path) ==
    LET marks == { i \in DOMAIN path : path[i] = "?" }
    IN  IF marks = {} THEN path ELSE SubSeq(path, 1, SetMin(marks) - 1)

\* do_GET without the test for ".db".
do_GET_unguarded(path) == do_GET_routes(BeforeQuery(path))

\* do_GET(self): the responses it may give to the request path.
do_GET(path) ==
    IF EndsWith(path, ".db")
    THEN { Reply(404, "do_GET", "error", << >>) }
    ELSE do_GET_routes(BeforeQuery(path))

\* The messages of the mailbox in the runs that end with a request to the
\* server: two senders, one of them with a message that has no Subject.
ServerKinds ==
    { Msg("a@b.com", Me, "ok", 1),
      NoSubject(Msg("c@d.com", Me, "ok", 1)),
      Msg("c@d.com", Me, "ok", 2) }

\* The GUIDs of the links a reader may follow, and one that no message has.
Guids ==
    { metadata_guid(m) : m \in { k \in ServerKinds : ~unique_string_raises(k) } }
        \cup { "md5:none" }

\* The senders whose feed names the requests carry: two that have messages
\* and one that has none.
RequestSenders == {"a@b.com", "c@d.com", "j.doe@x.org"}

\* The request paths of the model.
Requests ==
    { << "/", "article" >>,
      << "/", "article", "/" >>,
      << "/", "article", "?", "page" >>,
      << "/", "article", ".db" >>,
      << "/", "emails", ".db" >>,
      << "/", "emails", ".db", "?", "x" >>,
      << "/", "..", "/", "emails", ".db" >>,
      << "/", "..", "/", "emails", ".db", "?", "x" >>,
      << "/", "static", "/", "reader", ".css" >>,
      << "/", "static", "/", ".." >>,
      << "/", "static", "/", "emails", ".db" >>,
      << "/" >>,
      << "/", "subscriptions", ".opml" >> }
    \cup { << "/" >> \o xml_filename(a) : a \in RequestSenders }
    \cup { << "/", "article", "/" >> \o sanitize_feed_name(a) : a \in RequestSenders }
    \cup { << "/", "article", "/" >> \o sanitize_feed_name(a) \o << ".db" >> :
              a \in RequestSenders }
    \cup { << "/", "article", "/" >> \o sanitize_feed_name(a) \o << "/", g >> :
              a \in RequestSenders, g \in Guids }

\* feed_server serves a GET request, once the pipeline has run. A handler
\* keeps nothing from one request to the next: the model looks at one
\* request.
ServeGET ==
    /\ pc["run1"] = "exit"
    /\ gpc = "exit"
    /\ request = << >>
    /\ \E path \in Requests : \E r \in do_GET(path) :
         /\ request' = path
         /\ reply' = r
    /\ UNCHANGED << fetchVars, genVars, txtVars >>

\* The messages of the mailbox whose article links are followed: a sender
\* with a plain local part, one message of it with a body in an unknown
\* charset, and two senders whose addresses differ only in where the "@"
\* stands.
ReaderKinds ==
    { Msg("a@b.com", Me, "ok", 1),
      OddCharset(Msg("a@b.com", Me, "ok", 2)),
      Msg("j.doe@x.org", Me, "ok", 1),
      Msg("j@doe.x.org", Me, "ok", 2) }

\* generate_article_list_html: the link of one article of a listing,
\* "/article/{sanitize_feed_name(article['sender'])}/{article['guid']}".
article_url(a) ==
    << "/", "article", "/" >> \o sanitize_feed_name(a.sender) \o << "/", a.guid >>

\* The listings the reader shows: the one of all feeds (/article) and the
\* one of each stored sender.
Listings ==
    get_all_emails_with_metadata(store)
        \cup UNION { get_emails_by_sender_with_metadata(store, s) :
                       s \in get_senders(store) }

\* A reader follows one article link of a listing, once the fetch run has
\* ended (the reader reads the store, not the feed files).
FollowLink ==
    /\ pc["run1"] = "exit"
    /\ request = << >>
    /\ \E l \in Listings : \E j \in DOMAIN l : \E r \in do_GET(article_url(l[j])) :
         /\ request' = article_url(l[j])
         /\ reply' = r
    /\ UNCHANGED << fetchVars, genVars, txtVars >>

----------------------------------------------------------------------------
(* util.cleanse_content and the extraction of a message's body *)

\* Length of the strings given to cleanse_content.
MaxText == 2

\* Number of parts of a multipart message.
MaxParts == 2

\* A character is written as its code point. The characters of the model:
\* NUL, BS, TAB, LF, VT, FF, CR, SO, US, space, "A", DEL.
Alphabet == {0, 8, 9, 10, 11, 12, 13, 14, 31, 32, 65, 127}

\* The sequences over S of length at most n.
SeqsUpTo(S, n) == UNION { [1..k -> S] : k \in 0..n }

\* A substitution that removes TAB, LF and CR as well.
cleanse_content_all_c0(content) ==
    Pick(content, { i \in DOMAIN content : content[i] \notin 0..31 })

\* cleanse_content: re.compile(r"[\x00-\x08\x0B\x0C\x0E-\x1F]").sub("",
\* content)
cleanse_content(content) ==
    Pick(content, { i \in DOMAIN content :
                      content[i] \notin (0..8) \cup {11, 12} \cup (14..31) })

\* cleanse_content is applied to raw_text.
Cleanse ==
    /\ ~clean_text.done
    /\ clean_text' = [done |-> TRUE, text |-> cleanse_content(raw_text)]
    /\ UNCHANGED << fetchVars, genVars, srvVars, part_list, description,
                    article, raw_text >>

\* The payloads of the parts: empty, a vertical tab alone, "A", and a
\* space with a NUL.
Payloads == { << >>, << 11 >>, << 65 >>, << 32, 0 >> }

\* The parts msg.walk() yields after the multipart container: content
\* type, whether Content-Disposition says "attachment", the charset
\* declared, the payload after the transfer decoding.
Parts ==
    [ type       : {"text/html", "text/plain"},
      attachment : BOOLEAN,
      charset    : {"utf-8", "x-unknown"},
      payload    : Payloads ]

\* bytes.decode(charset, errors="ignore") raises LookupError on a charset
\* Python does not know.
decode_raises(part) == part.charset # "utf-8"

\* The loop over msg.walk() in generate_rss: html_content and content
\* after the parts 1..i. html_content is None until a text/html part was
\* decoded.
generate_rss_walk(parts) ==
    LET F[i \in 0..Len(parts)] ==
            IF i = 0
            THEN [html_is_none |-> TRUE, html_content |-> << >>, content |-> << >>]
            ELSE LET part == parts[i]
                     prev == F[i - 1]
                 IN  IF part.attachment \/ part.payload = << >>
                        \/ decode_raises(part)
                     THEN prev
                     ELSE IF part.type = "text/html"
                     THEN [prev EXCEPT !.html_is_none = FALSE,
                                       !.html_content = cleanse_content(part.payload)]
                     ELSE IF part.type = "text/plain" /\ prev.html_is_none
                     THEN [prev EXCEPT !.content = cleanse_content(part.payload)]
                     ELSE prev
    IN  F[Len(parts)]

\* An entry description that takes the plain text whenever there is some.
entry_description_plain_first(parts) ==
    LET w == generate_rss_walk(parts)
    IN  IF w.content # << >> THEN w.content ELSE w.html_content

\* generate_rss: feed_entry.description(html_content if html_content is
\* not None else content)
entry_description(parts) ==
    LET w == generate_rss_walk(parts)
    IN  IF ~w.html_is_none THEN w.html_content ELSE w.content

\* The loop over msg.walk() in serve_article: html_content and
\* text_content, both None at first.
serve_article_walk(parts) ==
    LET F[i \in 0..Len(parts)] ==
            IF i = 0
            THEN [html_is_none |-> TRUE, html_content |-> << >>,
                  text_is_none |-> TRUE, text_content |-> << >>]
            ELSE LET part == parts[i]
                     prev == F[i - 1]
                 IN  IF part.attachment \/ part.payload = << >>
                        \/ decode_raises(part)
                     THEN prev
                     ELSE IF part.type = "text/html"
                     THEN [prev EXCEPT !.html_is_none = FALSE,
                                       !.html_content = cleanse_content(part.payload)]
                     ELSE IF part.type = "text/plain" /\ prev.html_is_none
                     THEN [prev EXCEPT !.text_is_none = FALSE,
                                       !.text_content = cleanse_content(part.payload)]
                     ELSE prev
    IN  F[Len(parts)]

\* serve_article: content = html_content if html_content else text_content
\* or ""; the plain text is put inside <pre> when there is no HTML. None
\* and the empty string are both false.
article_content(parts) ==
    LET w == serve_article_walk(parts)
        html == ~w.html_is_none /\ w.html_content # << >>
        text == ~w.text_is_none /\ w.text_content # << >>
    IN  [ pre  |-> ~html /\ text,
          text |-> IF html THEN w.html_content
                   ELSE IF text THEN w.text_content ELSE << >> ]

\* generate_rss computes the description of the entry of a multipart
\* message.
DescribeEntry ==
    /\ ~description.done
    /\ description' = [done |-> TRUE, text |-> entry_description(part_list)]
    /\ UNCHANGED << fetchVars, genVars, srvVars, part_list, article,
                    raw_text, clean_text >>

\* serve_article computes the content of the article of the same message.
ShowArticle ==
    /\ ~article.done
    /\ article' = [done |-> TRUE, content |-> article_content(part_list)]
    /\ UNCHANGED << fetchVars, genVars, srvVars, part_list, description,
                    raw_text, clean_text >>

InitGenerator ==
    /\ gpc = "idle"
    /\ gtodo = {}
    /\ rss_files = << >>
    /\ rendered = << >>
    /\ feedDir = << >>
    /\ opml = [written |-> FALSE, outlines |-> << >>]
    /\ unparsed = {}
    /\ open_file = << >>

InitServer ==
    /\ request = << >>
    /\ reply = Reply(0, "none", "none", << >>)

\* No content function has been applied.
InitResults ==
    /\ description = [done |-> FALSE, text |-> << >>]
    /\ article = [done |-> FALSE,
                  content |-> [pre |-> FALSE, text |-> << >>]]
    /\ clean_text = [done |-> FALSE, text |-> << >>]

InitText ==
    /\ part_list = << >>
    /\ raw_text = << >>
    /\ InitResults

----------------------------------------------------------------------------

DayStarts == {0, 1}

\* The state before any program has run, over a mailbox of the given kinds
\* of messages.
InitOver(kinds) ==
    /\ mailbox \in [1..MaxMail -> kinds]
    /\ dayStart \in DayStarts
    /\ store = << >>
    /\ feeds = << >>
    /\ pc = [p \in Procs |-> "idle"]
    /\ since = [p \in Procs |-> WindowSteady]
    /\ msgs = [p \in Procs |-> << >>]
    /\ idx = [p \in Procs |-> 0]
    /\ existing = [p \in Procs |-> FALSE]
    /\ err = [p \in Procs |-> "none"]
    /\ todo = {}
    /\ before_id = [p \in Procs |-> 0]
    /\ after_id = [p \in Procs |-> 0]
    /\ InitGenerator
    /\ InitServer

Init == InitOver(MsgKinds) /\ InitText

Run(p) ==
    \/ DetermineWindow(p)
    \/ connect_to_gmail(p)
    \/ Search(p)
    \/ FetchAndParse(p)
    \/ save_email_select(p)
    \/ save_email_insert(p)
    \/ MainExcept(p)

CycleEnd == MainExcept("poller") \/ Sleep \/ DetermineWindow("poller")

Next ==
    \/ DetermineWindow("poller")
    \/ connect_to_gmail("poller")
    \/ Search("poller")
    \/ FetchAndParse("poller")
    \/ save_email_select("poller")
    \/ save_email_insert("poller")
    \/ MainExcept("poller")
    \/ FetchDoneConverter
    \/ RenderSender
    \/ RenderDone
    \/ Sleep

Spec == Init /\ [][Next]_vars

FairSpec == Spec /\ WF_vars(CycleEnd)

\* Two overlapping fetch runs over a mailbox of well-formed messages.
InitRace ==
    /\ Init
    /\ \A n \in DOMAIN mailbox : ~parse_raises(mailbox[n])
    /\ dayStart = 0

NextRace == \E p \in Scripts : Run(p) \/ FetchDoneFetcher(p)

SpecRace == InitRace /\ [][NextRace]_vars

\* The messages of the mailbox cron's launches read: two senders, the
\* message with the later date from one of them.
CronKinds ==
    { Msg("Alice <A@B.com>", Me, "ok", 2),
      Msg("c@d.com", Me, "ok", 1) }

\* The mailbox between two launches: its first message is expunged, every
\* later message moves down by one number (mail.search and mail.fetch use
\* IMAP message sequence numbers, and email_id is int(num)), and a new
\* message arrives at the end.
Expunge ==
    /\ pc["run1"] = "exit"
    /\ pc["run2"] = "idle"
    /\ \E new \in CronKinds :
         mailbox' = [n \in 1..MaxMail |->
                        IF n < MaxMail THEN mailbox[n + 1] ELSE new]
    /\ UNCHANGED << outside, dayStart, store, feeds, pc, since, msgs, idx,
                    existing, err, todo, before_id, after_id >>

\* email_fetcher.py launched twice, the second launch after the first has
\* ended.
InitCron == InitOver(CronKinds) /\ dayStart = 0 /\ InitText

NextCron ==
    \/ Run("run1")
    \/ FetchDoneFetcher("run1")
    \/ Expunge
    \/ pc["run1"] = "exit" /\ Run("run2")
    \/ pc["run1"] = "exit" /\ FetchDoneFetcher("run2")

SpecCron == InitCron /\ [][NextCron]_vars

\* The cron pipeline: one launch of email_fetcher.py, then one of
\* feed_generator.py.
InitGen == InitOver(GenKinds) /\ dayStart = 0 /\ InitText

NextGen ==
    \/ Run("run1")
    \/ FetchDoneFetcher("run1")
    \/ GenStart
    \/ GenSender
    \/ GenOpml

SpecGen == InitGen /\ [][NextGen]_vars

\* The pipeline, and then feed_server answering GET requests.
NextServer == NextGen \/ ServeGET

InitRequests == InitOver(ServerKinds) /\ dayStart = 0 /\ InitText

SpecServer == InitRequests /\ [][NextServer]_vars

\* The messages of the mailbox behind the feed files that are rewritten.
RewriteKinds ==
    { Msg("a@b.com", Me, "ok", 1),
      Msg("c@d.com", Me, "ok", 1) }

\* A file that open(path, "w") has just created or truncated: no byte of a
\* feed document.
EmptyFile == [title |-> "", entries |-> << >>]

\* main, one pass of the loop up to save_feed's open(save_path, "w"):
\* get_email, generate_rss, then the file is created or cut to length 0.
\* When generate_rss raises or the file cannot be opened the except clause
\* goes on to the next sender.
save_feed_open ==
    /\ gpc = "loop"
    /\ gtodo # {}
    /\ open_file = << >>
    /\ \E s \in gtodo, opened \in BOOLEAN : \E q \in get_email(store, s) :
         IF ~generate_rss_raises(store, q) /\ opened
         THEN /\ feedDir' = (xml_filename(s) :> EmptyFile) @@ feedDir
              /\ open_file' = << [name    |-> xml_filename(s),
                                  sender  |-> s,
                                  content |-> feed_document(store, q, s)] >>
              /\ UNCHANGED gtodo
         ELSE /\ gtodo' = gtodo \ {s}
              /\ UNCHANGED << feedDir, open_file >>
    /\ UNCHANGED << fetchVars, srvVars, txtVars, gpc, rss_files, rendered,
                    opml, unparsed >>

\* save_feed: f.write(feed_content) and the close at the end of the with
\* block; main appends the path to rss_files.
save_feed_write ==
    /\ gpc = "loop"
    /\ open_file # << >>
    /\ feedDir' = (open_file[1].name :> open_file[1].content) @@ feedDir
    /\ rss_files' = Append(rss_files, open_file[1].name)
    /\ rendered' = Append(rendered, open_file[1].sender)
    /\ gtodo' = gtodo \ {open_file[1].sender}
    /\ open_file' = << >>
    /\ UNCHANGED << fetchVars, srvVars, txtVars, gpc, opml, unparsed >>

\* cron launches feed_generator.py again.
GenAgain ==
    /\ gpc = "exit"
    /\ gpc' = "idle"
    /\ UNCHANGED << fetchVars, srvVars, txtVars, gtodo, rss_files, rendered,
                    feedDir, opml, unparsed, open_file >>

\* The feed documents and the subscription index a feed reader polls.
FeedRequests ==
    { << "/" >> \o xml_filename(a) : a \in {"a@b.com", "c@d.com"} }
        \cup { << "/", "subscriptions", ".opml" >> }

\* feed_server serves one GET for a feed file, at any moment of the
\* generator's run: the two are separate processes.
ServeFile ==
    /\ pc["run1"] = "exit"
    /\ request = << >>
    /\ \E path \in FeedRequests : \E r \in do_GET(path) :
         /\ request' = path
         /\ reply' = r
    /\ UNCHANGED << fetchVars, genVars, txtVars >>

\* email_fetcher.py, then feed_generator.py launched again and again with
\* the file writes of save_feed in two steps, and one GET at any moment.
InitRewrite == InitOver(RewriteKinds) /\ dayStart = 0 /\ InitText

NextRewrite ==
    \/ Run("run1")
    \/ FetchDoneFetcher("run1")
    \/ GenStart
    \/ save_feed_open
    \/ save_feed_write
    \/ GenOpml
    \/ GenAgain
    \/ ServeFile

SpecRewrite == InitRewrite /\ [][NextRewrite]_vars

\* email_fetcher.py, then a reader that follows one article link.
InitReader == InitOver(ReaderKinds) /\ dayStart = 0 /\ InitText

NextReader == Run("run1") \/ FetchDoneFetcher("run1") \/ FollowLink

SpecReader == InitReader /\ [][NextReader]_vars

\* The programs at rest: what the content functions do does not depend on
\* them.
InitAtRest == InitOver({Msg("a@b.com", Me, "ok", 1)}) /\ dayStart = 0

\* cleanse_content applied to every short string over the alphabet.
InitCleanse ==
    /\ InitAtRest
    /\ part_list = << >>
    /\ raw_text \in SeqsUpTo(Alphabet, MaxText)
    /\ InitResults

NextCleanse == Cleanse

SpecCleanse == InitCleanse /\ [][NextCleanse]_vars

\* The body of every multipart message of a few parts, as the feed entry
\* and as the reader's article.
InitBody ==
    /\ InitAtRest
    /\ part_list \in SeqsUpTo(Parts, MaxParts)
    /\ raw_text = << >>
    /\ InitResults

NextBody == DescribeEntry \/ ShowArticle

SpecBody == InitBody /\ [][NextBody]_vars

----------------------------------------------------------------------------
(* Properties *)

RowsWith(email_id) == { i \in DOMAIN store : store[i].email_id = email_id }

\* C1: calling save twice with the same sourceId leaves exactly one row with
\* that sourceId: no two rows of the store share an email_id, and a
\* save_email whose email_id is already stored leaves the store as it was
\* and goes on to the next message without raising.
C1_SaveTwiceOneRow ==
    /\ [](\A i, j \in DOMAIN store :
            store[i].email_id = store[j].email_id => i = j)
    /\ [][\A p \in Procs :
            (pc[p] = "insert" /\ existing_email(store, Cur(p)))
                => (store' = store /\ pc'[p] = "fetch")]_vars

\* A second save of a stored sourceId has returned, and one row holds it.
C1_Witness ==
    /\ pc["poller"] = "fetch"
    /\ idx["poller"] > 1
    /\ existing["poller"]
    /\ Cardinality(RowsWith(msgs["poller"][idx["poller"] - 1])) = 1

\* C2: under every interleaving of two overlapping fetch runs that save the
\* same sourceId the store holds at most one row for that sourceId.
C2_OneRowPerSourceId == \A n \in 1..MaxMail : Cardinality(RowsWith(n)) <= 1

RowFields ==
    {"id", "sender", "receiver", "email_id", "subject", "content", "timestamp"}

CompleteRow(r) ==
    /\ DOMAIN r = RowFields
    /\ r.id >= 1
    /\ r.email_id \in 1..MaxMail
    /\ r.content = mailbox[r.email_id]
    /\ r.sender # NoHeader
    /\ r.receiver # NoHeader
    /\ r.timestamp \in Dates

\* C3: a stored row stays in the store with all its fields unchanged; the
\* only step that changes the store is the INSERT of save_email in a fetch
\* run, and it adds one complete row at the end.
C3_AppendOnly ==
    [][ /\ Len(store') >= Len(store)
        /\ \A i \in DOMAIN store : store'[i] = store[i]
        /\ store' # store =>
             /\ \E p \in Procs : pc[p] = "insert" /\ pc'[p] = "fetch"
             /\ Len(store') = Len(store) + 1
             /\ CompleteRow(store'[Len(store')]) ]_vars

\* The poller has stored rows, met a stored sourceId again and rendered.
C3_Witness ==
    /\ Len(store) >= 2
    /\ DOMAIN feeds # {}
    /\ pc["poller"] = "fetch"
    /\ existing["poller"]

\* C4: getBySender returns the sender's messages newest first: of two
\* returned messages the one with the later timestamp comes earlier.
C4_NewestFirst ==
    \A s \in get_senders(store) : \A q \in get_email(store, s) :
        \A i, j \in DOMAIN q :
            store[q[i]].timestamp > store[q[j]].timestamp => i < j

\* C5: getBySender returns only messages of the sender, at most
\* max-items-per-feed of them, and no message it leaves out is more recent
\* than one it returns.
C5_MostRecentWithinCap ==
    \A s \in get_senders(store) : \A q \in get_email(store, s) :
        /\ \A i \in DOMAIN q : store[q[i]].sender = s
        /\ Len(q) <= max_item_per_feed
        /\ \A k \in DOMAIN store :
             (store[k].sender = s /\ k \notin Range(q))
                => \A i \in DOMAIN q :
                     store[k].timestamp <= store[q[i]].timestamp

DateDefectOnly(m) ==
    /\ m.date # "ok"
    /\ m.from # NoHeader
    /\ m.to # NoHeader

\* The run of p has fetched and handled the k-th message of its search.
Handled(p, k) ==
    \/ k < idx[p]
    \/ k = idx[p] /\ pc[p] \in {"except", "sleep", "exit"} /\ err[p] = "parse"

\* C7: a fetched message with no parseable Date header is stored, with the
\* fetch time as its timestamp.
C7_DatelessStored ==
    \A p \in Procs : \A k \in DOMAIN msgs[p] :
        (Handled(p, k) /\ DateDefectOnly(mailbox[msgs[p][k]]))
            => \E i \in DOMAIN store :
                 /\ store[i].email_id = msgs[p][k]
                 /\ store[i].timestamp = FetchTime

\* C8: when a run met a message that cannot be parsed, every other message
\* of its search has been passed to save by the end of the run.
C8_OthersStillSaved ==
    \A p \in Procs :
        (pc[p] \in {"sleep", "exit"} /\ err[p] = "parse")
            => \A k \in DOMAIN msgs[p] :
                 ~parse_raises(mailbox[msgs[p][k]])
                     => existing_email(store, msgs[p][k])

MailboxErrors == {"connect", "search", "fetch"}

CycleOver == pc["poller"] \in {"except", "sleep"}

C11_OnlyFailedSenderSkipped ==
    (pc["poller"] = "except" /\ err["poller"] = "render")
        => Cardinality(todo) <= 1

\* The senders whose feed was saved in this cycle and parsed by the index.
RenderedAndParsed == Pick(rendered, DOMAIN rendered \ unparsed)

\* C12: after a render cycle the subscription index is written and holds
\* exactly one outline per sender whose feed was rendered and parsed in that
\* cycle, in order, and none for a sender that was skipped or whose feed
\* did not parse.
C12_OneOutlinePerRenderedFeed ==
    gpc = "exit" =>
        /\ opml.written
        /\ Len(opml.outlines) = Len(RenderedAndParsed)
        /\ \A i \in DOMAIN opml.outlines :
               opml.outlines[i].xmlUrl = xml_filename(RenderedAndParsed[i])

C12_Witness ==
    /\ gpc = "exit"
    /\ get_senders(store) \ Range(rendered) # {}
    /\ unparsed # {}
    /\ Len(opml.outlines) >= 1
    /\ \E i \in unparsed : i < Len(rendered)

\* C17: after a render cycle that skipped no sender, the feed file of each
\* sender holds that sender's entries only, and two distinct senders have
\* distinct feed files.
C17_OwnFeedFile ==
    (gpc = "exit" /\ Range(rendered) = get_senders(store)) =>
        /\ \A i \in DOMAIN rendered :
               \A j \in DOMAIN feedDir[rss_files[i]].entries :
                   store[feedDir[rss_files[i]].entries[j].row].sender = rendered[i]
        /\ \A s1, s2 \in get_senders(store) :
               s1 # s2 => xml_filename(s1) # xml_filename(s2)

\* The message carries the Subject, Date and From headers.
HasIdentity(m) ==
    m.subject # NoHeader /\ date_header(m) # NoHeader /\ m.from # NoHeader

\* C13: for every stored message with Subject, Date and From, the GUID of
\* the feed entry, of the reader listings and of the lookup are one value,
\* the hash of subject, date and from joined in that order with nothing in
\* between; and every GUID published, in a feed document or in a listing,
\* for a message of sender s is found by get_email_by_guid(s, guid).
C13_SameGuidEverywhere ==
    /\ \A i \in DOMAIN store :
         LET m == store[i].content
         IN  HasIdentity(m) =>
               /\ feed_entry_id(m) = md5(m.subject \o date_header(m) \o m.from)
               /\ metadata_guid(m) = feed_entry_id(m)
               /\ calculated_guid(m) = feed_entry_id(m)
    /\ \A f \in DOMAIN feedDir : \A j \in DOMAIN feedDir[f].entries :
         LET e == feedDir[f].entries[j]
         IN  0 \notin get_email_by_guid(store, store[e.row].sender, e.guid)
    /\ reply.what = "listing" =>
         \A j \in DOMAIN reply.body :
             0 \notin get_email_by_guid(store, reply.body[j].sender,
                                        reply.body[j].guid)

C13_Witness ==
    /\ reply.what = "listing"
    /\ Len(reply.body) >= 1
    /\ \E f \in DOMAIN feedDir : Len(feedDir[f].entries) >= 1
    /\ \E i \in DOMAIN store : ~HasIdentity(store[i].content)

\* C14: get_email_by_guid(sender, guid) gives a stored message of that
\* sender whose recomputed GUID is guid whenever there is one, and None
\* otherwise: never a message of another sender or with another GUID.
C14_GetByGuid ==
    reply.by = "serve_article" =>
        LET asked == reply.body[1]
            hits  == { i \in DOMAIN store :
                         /\ store[i].sender = asked.sender
                         /\ HasIdentity(store[i].content)
                         /\ md5(store[i].content.subject
                                \o date_header(store[i].content)
                                \o store[i].content.from) = asked.guid }
        IN  IF hits = {} THEN asked.row = 0 /\ reply.status = 404
            ELSE asked.row \in hits /\ reply.status = 200

C14_Witness ==
    /\ reply.by = "serve_article"
    /\ reply.status = 200
    /\ \E i \in DOMAIN store : store[i].sender # reply.body[1].sender
    /\ \E i \in DOMAIN store :
         /\ store[i].sender = reply.body[1].sender
         /\ i < reply.body[1].row

\* C16: a GET whose path ends in ".db" is answered 404 by do_GET itself,
\* before any route is tried, and no GET is answered with the store file.
C16_StoreFileNeverServed ==
    /\ (request # << >> /\ EndsWith(request, ".db"))
           => reply = Reply(404, "do_GET", "error", << >>)
    /\ reply.what # "store"

C16_Witness ==
    /\ Len(request) > 3
    /\ EndsWith(request, ".db")
    /\ request[2] = "article"
    /\ reply.status = 404

\* The parts of part_list that are of the given type and no attachment.
Inline(type) ==
    { i \in DOMAIN part_list :
        part_list[i].type = type /\ ~part_list[i].attachment }

\* The message carries one text/html part and a text/plain part, neither
\* an attachment, and both views of it have been computed.
HtmlAndPlain ==
    /\ Cardinality(Inline("text/html")) = 1
    /\ Inline("text/plain") # {}
    /\ description.done
    /\ article.done

TheHtmlPart == part_list[CHOOSE i \in Inline("text/html") : TRUE]

\* C15 as stated: for a multipart message with a text/html part X and a
\* text/plain part Y, neither an attachment, the body is X (cleansed),
\* wherever X stands, in the feed entry and in the article view.
C15_HtmlPreferred_Original ==
    HtmlAndPlain =>
        /\ description.text = cleanse_content(TheHtmlPart.payload)
        /\ article.content = [pre |-> FALSE,
                              text |-> cleanse_content(TheHtmlPart.payload)]

\* X has a payload that decodes and is not empty once cleansed.
Usable(part) ==
    ~decode_raises(part) /\ cleanse_content(part.payload) # << >>

\* C15, amended: the same, for an X whose payload decodes in its declared
\* charset and is not empty once cleansed.
C15_HtmlPreferred ==
    (HtmlAndPlain /\ Usable(TheHtmlPart)) =>
        /\ description.text = cleanse_content(TheHtmlPart.payload)
        /\ article.content = [pre |-> FALSE,
                              text |-> cleanse_content(TheHtmlPart.payload)]

C15_Witness ==
    /\ HtmlAndPlain
    /\ Usable(TheHtmlPart)
    /\ Len(part_list) = 2
    /\ part_list[1].type = "text/plain"
    /\ Usable(part_list[1])
    /\ part_list[1].payload # part_list[2].payload
    /\ description.text = part_list[2].payload

\* A control character: C0 and DEL.
IsControl(c) == c \in 0..31 \/ c = 127

FetchCompleted(p) == idx[p] > Len(msgs[p])

\* Every message of the last day is stored.
LastDayStored ==
    /\ Len(store) > 0
    /\ \A n \in (dayStart + 1)..MaxMail : RowsWith(n) # {}

\* C18: a fetch run over an unchanged mailbox, after a run that completed,
\* leaves the store as that run left it, whichever window either run used:
\* a completed run has stored every message a later run will look at, and
\* from then on no step of any run changes the store.
C18_RerunChangesNothing ==
    /\ [](FetchCompleted("poller") => LastDayStored)
    /\ [][LastDayStored => store' = store]_vars

C18_Witness ==
    /\ FetchCompleted("poller")
    /\ existing["poller"]
    /\ since["poller"] = WindowSteady
    /\ dayStart = 1
    /\ Len(store) = MaxMail

\* C19: get_last_email_id() is 0 on an empty store and otherwise the
\* email_id of a stored message with the greatest timestamp: whenever a
\* fetch run reads before_id, that is what it gets.
C19_LastSourceId ==
    [][\A p \in Scripts :
          (pc[p] = "connect" /\ pc'[p] = "search") =>
              IF Len(store) = 0 THEN before_id'[p] = 0
              ELSE \E i \in DOMAIN store :
                     /\ store[i].email_id = before_id'[p]
                     /\ \A j \in DOMAIN store :
                            store[j].timestamp <= store[i].timestamp]_vars

C19_Witness ==
    /\ pc["run1"] = "exit"
    /\ pc["run2"] = "search"
    /\ Len(store) = MaxMail
    /\ before_id["run2"] # store[Len(store)].email_id
    /\ before_id["run2"] # MaxMail
    /\ before_id["run2"] # 0

AddressDefectOnly(m) ==
    /\ m.date = "ok"
    /\ m.from = NoHeader \/ m.to = NoHeader

\* C21: a fetched message whose From header is absent is stored with the
\* sender unknown@email.com, one whose To header is absent is stored with
\* the receiver you@email.com, and the run goes on to the next message.
C21_PlaceholderAddress ==
    \A p \in Procs : \A k \in DOMAIN msgs[p] :
        (Handled(p, k) /\ AddressDefectOnly(mailbox[msgs[p][k]]))
            => /\ \E i \in DOMAIN store :
                    /\ store[i].email_id = msgs[p][k]
                    /\ mailbox[msgs[p][k]].from = NoHeader
                         => store[i].sender = "unknown@email.com"
                    /\ mailbox[msgs[p][k]].to = NoHeader
                         => store[i].receiver = "you@email.com"
               /\ ~(k = idx[p] /\ err[p] = "parse")

\* The rows of sender, in storage order.
RowsOf(sender) == { i \in DOMAIN store : store[i].sender = sender }

\* C22: a stored message without Subject, Date or From has no GUID and is
\* skipped alone: the lookup and the listings still give the sender's other
\* messages, and the feed render of a sender that has such a message still
\* emits the entries of the sender's other messages.
C22_SkippedAlone ==
    \A s \in get_senders(store) :
        /\ \A i \in RowsOf(s) :
             HasIdentity(store[i].content)
                 => 0 \notin get_email_by_guid(store, s,
                                               metadata_guid(store[i].content))
        /\ \A l \in get_emails_by_sender_with_metadata(store, s) :
             \A j \in DOMAIN l : HasIdentity(store[l[j].row].content)
        /\ \A q \in get_email(store, s) :
             (\E i \in DOMAIN q : HasIdentity(store[q[i]].content))
                 => ~generate_rss_raises(store, q)

\* The parts of the given type that the walk reads: no attachment, a
\* payload that is not empty and decodes in the declared charset.
Candidates(type) ==
    { i \in Inline(type) :
        part_list[i].payload # << >> /\ ~decode_raises(part_list[i]) }

\* The text/plain candidates that stand before every text/html candidate.
PlainBeforeHtml ==
    { i \in Candidates("text/plain") :
        \A j \in Candidates("text/html") : i < j }

\* C23: of several non-attachment text/html parts the HTML candidate is the
\* first in walk order, of several text/plain parts before any HTML part
\* the plain-text candidate is the first, and a part marked as an
\* attachment never becomes a candidate; in the feed render and in the
\* article view.
C23_FirstPartIsCandidate ==
    (description.done /\ article.done) =>
        LET g == generate_rss_walk(part_list)
            s == serve_article_walk(part_list)
        IN  /\ Candidates("text/html") # {} =>
                 LET first == part_list[SetMin(Candidates("text/html"))]
                 IN  /\ g.html_content = cleanse_content(first.payload)
                     /\ s.html_content = cleanse_content(first.payload)
                     /\ description.text = cleanse_content(first.payload)
            /\ PlainBeforeHtml # {} =>
                 LET first == part_list[SetMin(PlainBeforeHtml)]
                 IN  /\ g.content = cleanse_content(first.payload)
                     /\ s.text_content = cleanse_content(first.payload)
            /\ (\A i \in DOMAIN part_list : part_list[i].attachment) =>
                 /\ g.html_is_none /\ g.content = << >>
                 /\ s.html_is_none /\ s.text_is_none

\* The rows of sender with the latest timestamp.
MostRecent(sender) ==
    { i \in RowsOf(sender) :
        \A j \in RowsOf(sender) : store[j].timestamp <= store[i].timestamp }

\* C24: the title of a sender's feed is the display name of the sender's
\* most recent message when that message has one, and the sender address
\* when no rendered message has a display name.
C24_TitleFromMostRecent ==
    \A k \in DOMAIN rendered :
        LET s   == rendered[k]
            doc == feedDir[xml_filename(s)]
        IN  (\A t \in Range(rendered) : xml_filename(t) = xml_filename(s) => t = s)
              => /\ \A i \in MostRecent(s) :
                      parseaddr_name(store[i].content.from) # ""
                          => doc.title = parseaddr_name(store[i].content.from)
                 /\ (\A j \in DOMAIN doc.entries :
                        parseaddr_name(store[doc.entries[j].row].content.from) = "")
                      => doc.title = s

\* The local part of the address has no "_" and no ".", and its domain has
\* no "_".
PlainLocalPart(a) ==
    /\ Pieces(a)[2] = "@"
    /\ \A i \in DOMAIN Pieces(a) : Pieces(a)[i] # "_"

\* The rows whose article link is the request.
Linked ==
    { i \in DOMAIN store :
        /\ HasIdentity(store[i].content)
        /\ request = << "/", "article", "/" >>
                       \o sanitize_feed_name(store[i].sender)
                       \o << "/", metadata_guid(store[i].content) >> }

\* The rows of the same sender and with the same GUID as row i.
SameArticle(i) ==
    { k \in RowsOf(store[i].sender) :
        /\ HasIdentity(store[k].content)
        /\ metadata_guid(store[k].content) = metadata_guid(store[i].content) }

\* C25 as stated: an article link of a listing, for a sender whose local
\* part has no "_" or "." and whose domain has no "_", returns that
\* sender's message with that GUID; for any other sender it is answered
\* 404, never with an internal error.
C25_LinkResolves_Original ==
    reply.by = "serve_article" =>
        \A i \in Linked :
            IF PlainLocalPart(store[i].sender)
            THEN reply.status = 200 /\ reply.body[1].row \in SameArticle(i)
            ELSE reply.status = 404

\* C25, amended: for such a sender the link resolves to that sender's
\* message with that GUID, and the answer is the article when the body of
\* the message decodes in its declared charset (500 otherwise); for any
\* other sender it is answered 404.
C25_LinkResolves ==
    reply.by = "serve_article" =>
        \A i \in Linked :
            IF PlainLocalPart(store[i].sender)
            THEN /\ reply.body[1].row \in SameArticle(i)
                 /\ reply.status =
                      (IF store[reply.body[1].row].content.charset = "utf-8"
                       THEN 200 ELSE 500)
            ELSE reply.status = 404

\* Links of both classes exist, and one of a sender with a plain local part
\* has been followed to a message that is not the sender's first one.
C25_Witness ==
    /\ reply.by = "serve_article"
    /\ reply.status = 200
    /\ \E i \in Linked : PlainLocalPart(store[i].sender) /\ i > 1
    /\ \E i \in DOMAIN store : ~PlainLocalPart(store[i].sender)

\* The rows the first launch stored: it started on an empty store, so every
\* message it handled before its loop ended was new.
StoredByRun1 == IF idx["run1"] = 0 THEN 0 ELSE idx["run1"] - 1

\* C26: when a fetch run has stored at least one new message, the
\* get_last_email_id() it reads after fetch_emails differs from the one it
\* read before: before_id = after_id only for a run that stored nothing.
C26_SkipLosesNothing ==
    /\ (pc["run1"] = "exit" /\ err["run1"] = "none"
          /\ before_id["run1"] = after_id["run1"])
         => StoredByRun1 = 0
    /\ (pc["run2"] = "exit" /\ err["run2"] = "none"
          /\ before_id["run2"] = after_id["run2"])
         => Len(store) = StoredByRun1

AbortedAtMessage(p) ==
    pc[p] = "except" /\ err[p] \in {"fetch", "parse"}

\* C28: when a fetch run aborts at its k-th message, the messages it saved
\* before stay in the store: every save is committed when it is made (the
\* row is in the store at once, one row per message), and neither the step
\* into the except clause nor the except clause changes the store.
C28_AbortKeepsEarlierSaves ==
    /\ [](\A p \in Procs :
            AbortedAtMessage(p)
                => \A j \in 1..(idx[p] - 1) :
                       Cardinality(RowsWith(msgs[p][j])) = 1)
    /\ [][\A p \in Procs :
            /\ (pc[p] = "insert" /\ pc'[p] = "fetch" /\ RowsWith(Cur(p)) = {})
                 => /\ Len(store') = Len(store) + 1
                    /\ store'[Len(store')].email_id = Cur(p)
                    /\ \A i \in DOMAIN store : store'[i] = store[i]
            /\ (pc'[p] = "except" \/ pc[p] = "except") => store' = store ]_vars

\* A cold-start run has aborted at its third message and the two it saved
\* before are the store.
C28_Witness ==
    /\ AbortedAtMessage("poller")
    /\ since["poller"] = WindowColdStart
    /\ idx["poller"] = 3
    /\ Len(store) = 2
    /\ RowsWith(1) # {} /\ RowsWith(2) # {}

\* C29: deduplication looks at the sourceId alone: once a row with
\* email_id n is stored, a later save that carries n stores nothing,
\* whatever the sender, subject and content of the stored row and of the
\* message offered, and the loop goes on without an error.
C29_FirstWriterWins ==
    /\ [](\A i, j \in DOMAIN store :
            store[i].email_id = store[j].email_id => i = j)
    /\ [][\A p \in Procs : \A i \in DOMAIN store :
            (pc[p] = "select" /\ pc'[p] # pc[p] /\ store[i].email_id = Cur(p))
                => /\ existing'[p]
                   /\ pc'[p] = "insert"
                   /\ store' = store ]_vars
    /\ [][\A p \in Procs :
            (pc[p] = "insert" /\ pc'[p] # pc[p] /\ existing[p])
                => /\ store' = store
                   /\ pc'[p] = "fetch"
                   /\ idx'[p] = idx[p] + 1
                   /\ err'[p] = err[p] ]_vars

\* The second launch met a number that is stored for a message of another
\* sender, stored nothing for it and went on.
C29_Witness ==
    /\ pc["run2"] = "fetch"
    /\ idx["run2"] > 1
    /\ existing["run2"]
    /\ err["run2"] = "none"
    /\ \E i \in DOMAIN store :
         /\ store[i].email_id = msgs["run2"][idx["run2"] - 1]
         /\ store[i].sender # RowOf(msgs["run2"][idx["run2"] - 1]).sender
         /\ store[i].content # mailbox[store[i].email_id]

\* C30: a GET for a feed document that runs while the generator rewrites
\* that file is answered with a complete document, the previous version or
\* the new one, never with an empty or cut file.
C30_CompleteDocument ==
    (reply.by = "SimpleHTTPRequestHandler" /\ reply.what = "feed")
        => /\ reply.body[1] # EmptyFile
           /\ \E s \in get_senders(store) : \E q \in get_email(store, s) :
                reply.body[1] = feed_document(store, q, s)

====
